---- MODULE Spec2Model ----
(***************************************************************************)
(* Model of the ash-ui component library: the DataTable sort hook, the     *)
(* DateRangePicker date predicates, the Modal hooks (focus trap, scroll    *)
(* lock, Escape key, click outside), Modal.CloseButton and Button.         *)
(*                                                                         *)
(* Each component is independent of the others (they share no state), so   *)
(* each has its own specification over its own variables; the variables of *)
(* the other components keep their initial value.                          *)
(***************************************************************************)
EXTENDS Integers, Sequences, FiniteSets, TLC

VARIABLES
    \* ---- DataTable / useSort
    sort,               \* useState<SortState>: [key, direction]
    onSortChange,       \* whether the onSortChange prop is given
    sortChangeCalls,    \* arguments onSortChange has been called with, in order
    \* ---- DateRangePicker utilities (pure functions)
    call,               \* the last utility call: its name and arguments
    ret,                \* the value that call returned
    \* ---- Modal
    phase,              \* "closed" (mounted, isOpen false), "open" (isOpen true), "unmounted"
    trapFocus,          \* props of the Modal
    lockScroll,
    closeOnEsc,
    closeOnOverlayClick,
    onClose,            \* which function the onClose prop currently is
    nFocusable,         \* number of elements in the dialog matching the focusable selector
    activeElement,      \* document.activeElement
    previouslyFocusedElement, \* the useFocusTrap ref
    trapListener,       \* useFocusTrap's keydown listener, when registered: its firstElement / lastElement
    bodyStyle,          \* document.body.style: [overflow, paddingRight]
    scrollCleanup,      \* useScrollLock's pending cleanup: the originals it captured
    keydownListeners,   \* useEscapeKey handlers registered on document, in order
    mousedownListeners, \* useClickOutside handlers registered on document, in order
    onCloseCalls,       \* how often each onClose function has been invoked
    focusBeforeOpen,    \* observer: activeElement just before the modal opened
    styleBeforeOpen,    \* observer: bodyStyle just before the modal opened
    \* ---- Modal.CloseButton
    closeButton,        \* [custom: has an onClose prop, inModal: rendered inside the Modal]
    closeButtonDom,     \* the click handler of the rendered <button>, None when nothing is rendered
    closeButtonWarned,  \* console.warn was emitted by a render
    customOnCloseCalls, \* how often the button's own onClose prop has been invoked
    \* ---- Button
    buttonProps,        \* [disabled, loading, hasOnClick]
    buttonFocused,      \* the <button> has keyboard focus
    onClickCalls,       \* how often the onClick prop has been invoked
    \* ---- DataTable / usePagination, useRowSelection
    externalPagination, \* the pagination prop: None or [page, pageSize, total]
    localPage,          \* useState(1)
    localPageSize,      \* useState(10)
    pageCalls,          \* calls to onPageChange / onPageSizeChange made by the last handler, in order
    data,               \* the data prop: the rows, in order
    enableSelection,    \* props of the DataTable
    getRowKey,
    onSelectionChange,  \* whether the onSelectionChange prop is given
    selectedRowKeys,    \* useState<Set<string | number>>
    lastSelectionCall,  \* argument of the latest onSelectionChange call, None before any
    lastEvent,          \* observer: the handler that ran last and what it found
    \* ---- DayCell
    cellProps,          \* props of the DayCell: date, isDisabled, isFocusable, handlers given
    cellEvents,         \* observer: the DOM events delivered to the cell, in order
    cellCalls,          \* calls the cell has made to its handler props, in order
    \* ---- a second Modal mounted on the same page
    phase2,             \* "closed" (isOpen false) or "open"
    scrollCleanup2,     \* its useScrollLock cleanup closure: the captured originals
    pageStyle           \* observer: the body style the page itself has set

sortVars == <<sort, onSortChange, sortChangeCalls>>
dateVars == <<call, ret>>
modalVars == <<phase, trapFocus, lockScroll, closeOnEsc, closeOnOverlayClick, onClose,
               nFocusable, activeElement, previouslyFocusedElement, trapListener,
               bodyStyle, scrollCleanup, keydownListeners, mousedownListeners,
               onCloseCalls, focusBeforeOpen, styleBeforeOpen,
               closeButton, closeButtonDom, closeButtonWarned, customOnCloseCalls>>
buttonVars == <<buttonProps, buttonFocused, onClickCalls>>
tableVars == <<externalPagination, localPage, localPageSize, pageCalls, data, enableSelection,
               getRowKey, onSelectionChange, selectedRowKeys, lastSelectionCall, lastEvent>>
cellVars == <<cellProps, cellEvents, cellCalls>>
modal2Vars == <<phase2, scrollCleanup2, pageStyle>>
vars == <<sortVars, dateVars, modalVars, buttonVars, tableVars, cellVars, modal2Vars>>
\* what each component leaves alone
notSort == <<dateVars, modalVars, buttonVars, tableVars, cellVars, modal2Vars>>
notDate == <<sortVars, modalVars, buttonVars, tableVars, cellVars, modal2Vars>>
notModal == <<sortVars, dateVars, buttonVars, tableVars, cellVars, modal2Vars>>
notButton == <<sortVars, dateVars, modalVars, tableVars, cellVars, modal2Vars>>
notTable == <<sortVars, dateVars, modalVars, buttonVars, cellVars, modal2Vars>>
notCell == <<sortVars, dateVars, modalVars, buttonVars, tableVars, modal2Vars>>
notModals == <<sortVars, dateVars, buttonVars, tableVars, cellVars>>

\* An optional value (undefined / null in the source) is <<>>, a present one <<v>>.
None == <<>>
Some(v) == <<v>>
Has(o) == o # <<>>
Val(o) == o[1]

----------------------------------------------------------------------------
(***************************************************************************)
(* DataTable: useSort                                                      *)
(***************************************************************************)

\* Column ids of the table under test.
ColumnIds == {"name", "age", "email"}
\* SortDirection = 'asc' | 'desc' | null
SortDirections == {"asc", "desc", "null"}
\* How many onSortChange calls are recorded before the model stops clicking.
MaxSortCalls == 4

\* useState initial value: initialSort if given, else { key: '', direction: null }
InitialSortState(initialSort) ==
    IF Has(initialSort)
    THEN [key |-> Val(initialSort).key, direction |-> Val(initialSort).direction]
    ELSE [key |-> "", direction |-> "null"]

\* A handleSort that flips the direction whatever column is clicked.
NewDirectionIgnoringKey(prev, key) ==
    IF prev.direction = "asc" THEN "desc" ELSE "asc"

\* the direction computed inside the setSort updater
NewDirection(prev, key) ==
    IF prev.key # key
    THEN "asc"
    ELSE IF prev.direction = "asc" THEN "desc" ELSE "asc"

\* newSort = { key, direction: newDirection }
NewSort(prev, key) == [key |-> key, direction |-> NewDirection(prev, key)]

SortInit ==
    /\ \E initialSort \in {None} \cup
            {Some([key |-> k, direction |-> d]) : k \in ColumnIds, d \in SortDirections} :
          sort = InitialSortState(initialSort)
    /\ onSortChange \in BOOLEAN
    /\ sortChangeCalls = <<>>

SortIdle ==
    /\ sort = [key |-> "", direction |-> "null"]
    /\ onSortChange = FALSE
    /\ sortChangeCalls = <<>>

\* onSort(key): setSort(prev => { ...; onSortChange?.(newSort); return newSort })
OnSort(key) ==
    /\ Len(sortChangeCalls) < MaxSortCalls
    /\ sort' = NewSort(sort, key)
    /\ sortChangeCalls' = IF onSortChange
                          THEN Append(sortChangeCalls, NewSort(sort, key))
                          ELSE sortChangeCalls
    /\ UNCHANGED onSortChange
    /\ UNCHANGED notSort

\* getSortDirection(key) of the returned object
getSortDirection(key) == IF sort.key = key THEN sort.direction ELSE "null"
\* isSorted(key) of the returned object
isSorted(key) == sort.key = key /\ sort.direction # "null"

----------------------------------------------------------------------------
(***************************************************************************)
(* DateRangePicker: date utilities                                         *)
(*                                                                         *)
(* A Date is its timestamp, an integer number of ticks; a calendar day is  *)
(* TicksPerDay consecutive ticks.  date-fns isBefore/isAfter compare the   *)
(* timestamps.                                                             *)
(***************************************************************************)

\* Number of calendar days in the modelled window, and clock ticks per day.
MaxDays == 3
TicksPerDay == 2
Times == 0 .. (MaxDays * TicksPerDay - 1)
DayOf(t) == t \div TicksPerDay

\* date-fns
isBefore(a, b) == a < b
isAfter(a, b) == a > b
isSameDay(a, b) == DayOf(a) = DayOf(b)

\* The (date: Date) => boolean predicates callers pass in.
PredFns ==
    { [t \in Times |-> FALSE],
      [t \in Times |-> TRUE],
      [t \in Times |-> DayOf(t) = 0],
      [t \in Times |-> t % TicksPerDay = 1] }

\* DisabledDateStrategy | undefined
Strategies ==
    { [kind |-> k, fn |-> [t \in Times |-> FALSE]] : k \in {"none", "past", "future", "undefined"} }
    \cup { [kind |-> "function", fn |-> f] : f \in PredFns }

\* isDateDisabled with the custom predicate AND-ed with the strategy.
isDateDisabledAnd(date, strategy, minDate, maxDate, customPredicate, now) ==
    LET strat == CASE strategy.kind = "past" -> isBefore(date, now)
                   [] strategy.kind = "future" -> isAfter(date, now)
                   [] strategy.kind = "function" -> strategy.fn[date]
                   [] OTHER -> FALSE
    IN  IF Has(minDate) /\ isBefore(date, Val(minDate)) THEN TRUE
        ELSE IF Has(maxDate) /\ isAfter(date, Val(maxDate)) THEN TRUE
        ELSE IF Has(customPredicate) THEN Val(customPredicate)[date] /\ strat
        ELSE strat

\* isDateDisabled; `now` is the value of new Date() at the call
isDateDisabled(date, strategy, minDate, maxDate, customPredicate, now) ==
    IF Has(customPredicate) /\ Val(customPredicate)[date] THEN TRUE
    ELSE IF Has(minDate) /\ isBefore(date, Val(minDate)) THEN TRUE
    ELSE IF Has(maxDate) /\ isAfter(date, Val(maxDate)) THEN TRUE
    ELSE IF strategy.kind = "none" THEN FALSE
    ELSE IF strategy.kind = "past" THEN isBefore(date, now)
    ELSE IF strategy.kind = "future" THEN isAfter(date, now)
    ELSE IF strategy.kind = "function" THEN strategy.fn[date]
    ELSE FALSE

\* isDateInRange whose upper bound is always range.to.
isDateInRangeNoSwap(date, range) ==
    IF ~Has(range.from) \/ ~Has(range.to) THEN FALSE
    ELSE ~isBefore(date, Val(range.from)) /\ ~isAfter(date, Val(range.to))

\* isDateInRange
isDateInRange(date, range) ==
    IF ~Has(range.from) \/ ~Has(range.to) THEN FALSE
    ELSE LET start == IF isBefore(Val(range.from), Val(range.to))
                      THEN Val(range.from) ELSE Val(range.to)
             end == IF isAfter(Val(range.from), Val(range.to))
                    THEN Val(range.from) ELSE Val(range.to)
         IN  ~isBefore(date, start) /\ ~isAfter(date, end)

\* isSameDate: false when either date is null
isSameDate(date1, date2) ==
    IF ~Has(date1) \/ ~Has(date2) THEN FALSE
    ELSE isSameDay(Val(date1), Val(date2))

\* isRangeStart
isRangeStart(date, range) ==
    IF Has(range.from) THEN isSameDate(Some(date), range.from) ELSE FALSE

\* isRangeEnd
isRangeEnd(date, range) ==
    IF Has(range.to) THEN isSameDate(Some(date), range.to) ELSE FALSE

OptTimes == {None} \cup {Some(t) : t \in Times}
DateRanges == [from : OptTimes, to : OptTimes]

NoCall == [fn |-> "none"]

DateIdle ==
    /\ call = NoCall
    /\ ret = FALSE

\* A caller evaluates isDateDisabled on some arguments at some time.
CallIsDateDisabled ==
    /\ call = NoCall
    /\ \E date \in Times, strategy \in Strategies, minDate \in OptTimes, maxDate \in OptTimes,
       customPredicate \in {None} \cup {Some(f) : f \in PredFns}, now \in Times :
        /\ call' = [fn |-> "isDateDisabled", date |-> date, strategy |-> strategy,
                    minDate |-> minDate, maxDate |-> maxDate,
                    customPredicate |-> customPredicate, now |-> now]
        /\ ret' = isDateDisabled(date, strategy, minDate, maxDate, customPredicate, now)
        /\ UNCHANGED notDate

\* A caller evaluates isDateInRange on some arguments.
CallIsDateInRange ==
    /\ call = NoCall
    /\ \E date \in Times, range \in DateRanges :
        /\ call' = [fn |-> "isDateInRange", date |-> date, range |-> range]
        /\ ret' = isDateInRange(date, range)
        /\ UNCHANGED notDate

\* A caller evaluates isRangeStart on some arguments.
CallIsRangeStart ==
    /\ call = NoCall
    /\ \E date \in Times, range \in DateRanges :
        /\ call' = [fn |-> "isRangeStart", date |-> date, range |-> range]
        /\ ret' = isRangeStart(date, range)
        /\ UNCHANGED notDate

\* A caller evaluates isRangeEnd on some arguments.
CallIsRangeEnd ==
    /\ call = NoCall
    /\ \E date \in Times, range \in DateRanges :
        /\ call' = [fn |-> "isRangeEnd", date |-> date, range |-> range]
        /\ ret' = isRangeEnd(date, range)
        /\ UNCHANGED notDate

\* A month is given by the weekday of its first day (getDay: Sunday = 0) and
\* its number of days; a day is its day-of-month number, counted on through
\* the neighbouring months (0 is the last day of the previous month,
\* nDays + 1 the first day of the next).
Weekdays == 0 .. 6
MonthLengths == 28 .. 31

\* getDaysInMonth: the weeks of the month calendar
getDaysInMonth(firstDayOfWeek, nDays, showOutsideDays) ==
    LET lastDayOfWeek == (firstDayOfWeek + nDays - 1) % 7
        daysToPrepend == firstDayOfWeek
        daysToAppend == 6 - lastDayOfWeek
        daysInMonth == [d \in 1 .. nDays |-> d]
        prepended == IF showOutsideDays /\ daysToPrepend > 0
                     THEN [j \in 1 .. daysToPrepend |-> j - daysToPrepend]
                     ELSE <<>>
        appended == IF showOutsideDays /\ daysToAppend > 0
                    THEN [j \in 1 .. daysToAppend |-> nDays + j]
                    ELSE <<>>
        days == prepended \o daysInMonth \o appended
        nWeeks == (Len(days) + 6) \div 7
    IN  [w \in 1 .. nWeeks |->
           SubSeq(days, 7 * (w - 1) + 1, IF 7 * w < Len(days) THEN 7 * w ELSE Len(days))]

\* A caller evaluates getDaysInMonth on some month.
CallGetDaysInMonth ==
    /\ call = NoCall
    /\ \E firstDayOfWeek \in Weekdays, nDays \in MonthLengths, showOutsideDays \in BOOLEAN :
        /\ call' = [fn |-> "getDaysInMonth", firstDayOfWeek |-> firstDayOfWeek,
                    nDays |-> nDays, showOutsideDays |-> showOutsideDays]
        /\ ret' = getDaysInMonth(firstDayOfWeek, nDays, showOutsideDays)
        /\ UNCHANGED notDate

----------------------------------------------------------------------------
(***************************************************************************)
(* Modal: useFocusTrap, useScrollLock, useEscapeKey, useClickOutside       *)
(*                                                                         *)
(* The document holds NOutside focusable elements of the page followed,    *)
(* while the modal is open, by the nFocusable focusable elements of the    *)
(* dialog (the portal is appended to document.body).  A render and the     *)
(* effects it schedules are one step.                                      *)
(***************************************************************************)

\* Focusable elements of the page outside the dialog.
NOutside == 2
\* Largest number of focusable elements inside the dialog.
MaxFocusable == 3
\* How many onClose invocations are counted before the model stops sending events.
MaxCloseCalls == 2

\* The functions the parent passes as onClose over time.
OnCloseIds == {"onCloseA", "onCloseB"}

Body == [where |-> "body", idx |-> 0]
Outside(i) == [where |-> "page", idx |-> i]
Inside(i) == [where |-> "modal", idx |-> i]

Keys == {"Tab", "Shift+Tab", "Escape", "Enter"}

\* window.innerWidth - document.documentElement.clientWidth
ScrollbarWidths == {0, 15}
Px(w) == IF w = 15 THEN "15px" ELSE "0px"
\* body styles the page may have before any modal opens
PageStyles == { [overflow |-> "", paddingRight |-> ""],
                [overflow |-> "auto", paddingRight |-> "4px"] }

\* The browser's sequential focus order.
TabOrder(open, n) ==
    [i \in 1 .. NOutside |-> Outside(i)] \o
    (IF open THEN [i \in 1 .. n |-> Inside(i)] ELSE <<>>)

IndexOf(order, e) ==
    IF \E i \in 1 .. Len(order) : order[i] = e
    THEN CHOOSE i \in 1 .. Len(order) : order[i] = e
    ELSE 0

\* The browser's default action for Tab / Shift+Tab.
BrowserTab(order, active, shift) ==
    LET p == IndexOf(order, active)
        L == Len(order)
    IN  IF L = 0 THEN active
        ELSE IF shift
             THEN (IF p <= 1 THEN order[L] ELSE order[p - 1])
             ELSE (IF p = 0 \/ p = L THEN order[1] ELSE order[p + 1])

\* el.focus(): document.body is not focusable, focusing it changes nothing.
Focus(el, active) == IF el = Body THEN active ELSE el

\* A focus trap whose keydown handler never wraps.
FocusTrapKeyDownNoWrap(listener, key, active) ==
    [prevented |-> FALSE, active |-> active]

\* useFocusTrap: handleKeyDown
FocusTrapKeyDown(listener, key, active) ==
    IF key \notin {"Tab", "Shift+Tab"} THEN [prevented |-> FALSE, active |-> active]
    ELSE IF key = "Shift+Tab"
    THEN (IF active = listener.firstElement
          THEN [prevented |-> TRUE, active |-> listener.lastElement]
          ELSE [prevented |-> FALSE, active |-> active])
    ELSE (IF active = listener.lastElement
          THEN [prevented |-> TRUE, active |-> listener.firstElement]
          ELSE [prevented |-> FALSE, active |-> active])

\* useFocusTrap: the effect body, run when the modal opens.
\* Gives the new ref, the new activeElement and the listener it registered.
FocusTrapEffect(trap, n, active, prevRef) ==
    IF ~trap
    THEN [ref |-> prevRef, active |-> active, listener |-> None]
    ELSE IF n = 0
    THEN [ref |-> Some(active), active |-> active, listener |-> None]
    ELSE [ref |-> Some(active), active |-> Inside(1),
          listener |-> Some([firstElement |-> Inside(1), lastElement |-> Inside(n)])]

\* useFocusTrap: the effect's cleanup, which exists only when a listener was
\* registered; `active` is document.activeElement after the dialog left the DOM.
FocusTrapCleanup(listener, prevRef, active) ==
    IF ~Has(listener) THEN active
    ELSE IF Has(prevRef) THEN Focus(Val(prevRef), active)
    ELSE active

\* A scroll lock that restores overflow but forgets paddingRight.
ScrollLockCleanupOverflowOnly(cleanup, style) ==
    IF Has(cleanup) THEN [style EXCEPT !.overflow = Val(cleanup).overflow] ELSE style

\* useScrollLock: the effect body; gives the new body style and the cleanup
ScrollLockEffect(lock, style, scrollbarWidth) ==
    IF ~lock
    THEN [style |-> style, cleanup |-> None]
    ELSE [style |-> [overflow |-> "hidden",
                     paddingRight |-> IF scrollbarWidth > 0 THEN Px(scrollbarWidth)
                                      ELSE style.paddingRight],
          cleanup |-> Some(style)]

\* useScrollLock: the cleanup
ScrollLockCleanup(cleanup, style) ==
    IF Has(cleanup) THEN Val(cleanup) ELSE style

\* addEventListener: a handler already registered is not registered twice
AddListener(listeners, h) ==
    IF \E i \in 1 .. Len(listeners) : listeners[i] = h THEN listeners
    ELSE Append(listeners, h)

\* A cleanup that leaves the listener registered.
RemoveListenerNever(listeners, h) == listeners

\* removeEventListener
RemoveListener(listeners, h) == SelectSeq(listeners, LAMBDA x : x # h)

\* An Escape handler that ignores closeOnEsc.
EscapeFiresAlways(h, key) == key = "Escape"

\* useEscapeKey: handleKeyDown calls onClose
EscapeFires(h, key) == key = "Escape" /\ h.enabled

\* A click-outside handler that ignores where the click landed.
ClickOutsideFiresAnywhere(h, containerMounted, targetInside) ==
    h.enabled /\ containerMounted

\* useClickOutside: handleClick calls onClose
ClickOutsideFires(h, containerMounted, targetInside) ==
    IF ~h.enabled \/ ~containerMounted THEN FALSE
    ELSE ~targetInside

\* The handler useCallback returns for the given dependencies.
Handler(f, enabled) == [onClose |-> f, enabled |-> enabled]

\* Dispatch of one event: every registered listener runs, in order, and the
\* firing ones invoke their onClose.
RECURSIVE Invoke(_, _, _)
Invoke(listeners, firing, calls) ==
    IF listeners = <<>> THEN calls
    ELSE LET h == Head(listeners)
         IN  Invoke(Tail(listeners), firing,
                    IF h \in firing THEN [calls EXCEPT ![h.onClose] = @ + 1] ELSE calls)

Range(seq) == {seq[i] : i \in 1 .. Len(seq)}

KeydownCalls(key) ==
    Invoke(keydownListeners, {h \in Range(keydownListeners) : EscapeFires(h, key)}, onCloseCalls)

MousedownCalls(targetInside) ==
    Invoke(mousedownListeners,
           {h \in Range(mousedownListeners) : ClickOutsideFires(h, phase = "open", targetInside)},
           onCloseCalls)

TotalCloseCalls ==
    onCloseCalls["onCloseA"] + onCloseCalls["onCloseB"] + customOnCloseCalls

\* A close button that prefers the Modal's onClose over its own prop.
CloseButtonHandlerContextFirst(custom, inModal) ==
    IF inModal THEN Some("context") ELSE IF custom THEN Some("custom") ELSE None

\* ModalCloseButton: handleClose = customOnClose || context.onClose
CloseButtonHandler(custom, inModal) ==
    IF custom THEN Some("custom") ELSE IF inModal THEN Some("context") ELSE None

\* ModalCloseButton: one render; warns and renders nothing without a handler
CloseButtonRender(custom, inModal) ==
    LET handleClose == CloseButtonHandler(custom, inModal)
    IN  [dom |-> handleClose, warned |-> ~Has(handleClose)]

ModalInit ==
    /\ phase = "closed"
    /\ trapFocus \in BOOLEAN
    /\ lockScroll \in BOOLEAN
    /\ closeOnEsc = TRUE
    /\ closeOnOverlayClick = TRUE
    /\ onClose = "onCloseA"
    /\ nFocusable \in 0 .. MaxFocusable
    /\ activeElement \in {Body, Outside(1)}
    /\ previouslyFocusedElement = None
    /\ trapListener = None
    /\ bodyStyle \in PageStyles
    /\ scrollCleanup = None
    /\ keydownListeners = <<>>
    /\ mousedownListeners = <<>>
    /\ onCloseCalls = [f \in OnCloseIds |-> 0]
    /\ focusBeforeOpen = activeElement
    /\ styleBeforeOpen = bodyStyle
    /\ closeButton \in [custom : BOOLEAN, inModal : BOOLEAN]
    \* a close button inside the dialog is one of its focusable elements
    /\ closeButton.inModal => nFocusable >= 1
    \* a button outside any Modal has been rendered at construction
    /\ closeButtonDom = IF closeButton.inModal THEN None
                        ELSE CloseButtonRender(closeButton.custom, FALSE).dom
    /\ closeButtonWarned = IF closeButton.inModal THEN FALSE
                           ELSE CloseButtonRender(closeButton.custom, FALSE).warned
    /\ customOnCloseCalls = 0

ModalIdle ==
    /\ phase = "closed"
    /\ trapFocus = TRUE
    /\ lockScroll = TRUE
    /\ closeOnEsc = TRUE
    /\ closeOnOverlayClick = TRUE
    /\ onClose = "onCloseA"
    /\ nFocusable = 0
    /\ activeElement = Body
    /\ previouslyFocusedElement = None
    /\ trapListener = None
    /\ bodyStyle = [overflow |-> "", paddingRight |-> ""]
    /\ scrollCleanup = None
    /\ keydownListeners = <<>>
    /\ mousedownListeners = <<>>
    /\ onCloseCalls = [f \in OnCloseIds |-> 0]
    /\ focusBeforeOpen = Body
    /\ styleBeforeOpen = [overflow |-> "", paddingRight |-> ""]
    /\ closeButton = [custom |-> TRUE, inModal |-> TRUE]
    /\ closeButtonDom = None
    /\ closeButtonWarned = FALSE
    /\ customOnCloseCalls = 0

modalProps == <<trapFocus, lockScroll, nFocusable, closeButton>>

\* The parent renders the Modal with isOpen = true: the dialog is rendered
\* into the portal and the four effects run in the order of the hooks.
OpenModal ==
    /\ phase = "closed"
    /\ phase' = "open"
    /\ focusBeforeOpen' = activeElement
    /\ styleBeforeOpen' = bodyStyle
    /\ LET ft == FocusTrapEffect(trapFocus, nFocusable, activeElement, previouslyFocusedElement)
       IN  /\ previouslyFocusedElement' = ft.ref
           /\ activeElement' = ft.active
           /\ trapListener' = ft.listener
    /\ \E scrollbarWidth \in ScrollbarWidths :
          LET sl == ScrollLockEffect(lockScroll, bodyStyle, scrollbarWidth)
          IN  /\ bodyStyle' = sl.style
              /\ scrollCleanup' = sl.cleanup
    /\ keydownListeners' = AddListener(keydownListeners, Handler(onClose, closeOnEsc))
    /\ mousedownListeners' = AddListener(mousedownListeners, Handler(onClose, closeOnOverlayClick))
    /\ IF closeButton.inModal
       THEN LET r == CloseButtonRender(closeButton.custom, TRUE)
            IN  /\ closeButtonDom' = r.dom
                /\ closeButtonWarned' = (closeButtonWarned \/ r.warned)
       ELSE UNCHANGED <<closeButtonDom, closeButtonWarned>>
    /\ UNCHANGED <<modalProps, closeOnEsc, closeOnOverlayClick, onClose, onCloseCalls,
                   customOnCloseCalls>>
    /\ UNCHANGED notModal

\* The dialog leaves the DOM and every pending effect cleanup runs: the common
\* part of closing (isOpen = false) and unmounting an open modal.
TearDown ==
    /\ activeElement' =
          FocusTrapCleanup(trapListener, previouslyFocusedElement,
                           IF activeElement.where = "modal" THEN Body ELSE activeElement)
    /\ trapListener' = None
    /\ bodyStyle' = ScrollLockCleanup(scrollCleanup, bodyStyle)
    /\ scrollCleanup' = None
    /\ keydownListeners' = RemoveListener(keydownListeners, Handler(onClose, closeOnEsc))
    /\ mousedownListeners' =
          RemoveListener(mousedownListeners, Handler(onClose, closeOnOverlayClick))
    /\ closeButtonDom' = IF closeButton.inModal THEN None ELSE closeButtonDom
    /\ UNCHANGED <<modalProps, closeOnEsc, closeOnOverlayClick, onClose, onCloseCalls,
                   customOnCloseCalls, previouslyFocusedElement, focusBeforeOpen,
                   styleBeforeOpen, closeButtonWarned>>

\* The parent renders the Modal with isOpen = false.
CloseModal ==
    /\ phase = "open"
    /\ phase' = "closed"
    /\ TearDown
    /\ UNCHANGED notModal

\* The parent stops rendering the Modal.
UnmountModal ==
    /\ phase \in {"open", "closed"}
    /\ phase' = "unmounted"
    /\ IF phase = "open" THEN TearDown
       ELSE UNCHANGED <<modalProps, closeOnEsc, closeOnOverlayClick, onClose, activeElement,
                        previouslyFocusedElement, trapListener, bodyStyle, scrollCleanup,
                        keydownListeners, mousedownListeners, onCloseCalls, focusBeforeOpen,
                        styleBeforeOpen, closeButtonDom, closeButtonWarned,
                        customOnCloseCalls>>
    /\ UNCHANGED notModal

\* The parent re-renders the Modal with another onClose, closeOnEsc or
\* closeOnOverlayClick: useCallback returns new handlers and the effects that
\* depend on them clean up and run again.
RerenderModal(f, esc, overlay) ==
    /\ phase \in {"open", "closed"}
    /\ <<f, esc, overlay>> # <<onClose, closeOnEsc, closeOnOverlayClick>>
    /\ onClose' = f
    /\ closeOnEsc' = esc
    /\ closeOnOverlayClick' = overlay
    /\ keydownListeners' =
          IF phase = "open"
          THEN AddListener(RemoveListener(keydownListeners, Handler(onClose, closeOnEsc)),
                           Handler(f, esc))
          ELSE keydownListeners
    /\ mousedownListeners' =
          IF phase = "open"
          THEN AddListener(RemoveListener(mousedownListeners,
                                          Handler(onClose, closeOnOverlayClick)),
                           Handler(f, overlay))
          ELSE mousedownListeners
    /\ UNCHANGED <<modalProps, phase, activeElement, previouslyFocusedElement, trapListener,
                   bodyStyle, scrollCleanup, onCloseCalls, focusBeforeOpen, styleBeforeOpen,
                   closeButtonDom, closeButtonWarned, customOnCloseCalls>>
    /\ UNCHANGED notModal

\* The user presses a key: the document's keydown listeners run (the focus
\* trap's, then the Escape handlers), then the browser's default action.
KeyDown(key) ==
    /\ TotalCloseCalls < MaxCloseCalls
    /\ LET trapped == IF Has(trapListener)
                      THEN FocusTrapKeyDown(Val(trapListener), key, activeElement)
                      ELSE [prevented |-> FALSE, active |-> activeElement]
       IN  activeElement' =
              IF key \in {"Tab", "Shift+Tab"} /\ ~trapped.prevented
              THEN BrowserTab(TabOrder(phase = "open", nFocusable), trapped.active,
                              key = "Shift+Tab")
              ELSE trapped.active
    /\ onCloseCalls' = KeydownCalls(key)
    /\ UNCHANGED <<modalProps, phase, closeOnEsc, closeOnOverlayClick, onClose,
                   previouslyFocusedElement, trapListener, bodyStyle, scrollCleanup,
                   keydownListeners, mousedownListeners, focusBeforeOpen, styleBeforeOpen,
                   closeButtonDom, closeButtonWarned, customOnCloseCalls>>
    /\ UNCHANGED notModal

\* The user presses the mouse button on the overlay (outside the dialog
\* container) or on the dialog's content (inside it).
MouseDown(targetInside) ==
    /\ TotalCloseCalls < MaxCloseCalls
    /\ targetInside => phase = "open"
    /\ onCloseCalls' = MousedownCalls(targetInside)
    /\ UNCHANGED <<modalProps, phase, closeOnEsc, closeOnOverlayClick, onClose, activeElement,
                   previouslyFocusedElement, trapListener, bodyStyle, scrollCleanup,
                   keydownListeners, mousedownListeners, focusBeforeOpen, styleBeforeOpen,
                   closeButtonDom, closeButtonWarned, customOnCloseCalls>>
    /\ UNCHANGED notModal

\* The user clicks the rendered close button: the mousedown reaches the
\* document listeners (inside the dialog container when the button is in the
\* Modal), then the button's onClick runs.  A button outside the Modal cannot
\* be clicked while the overlay covers the page.
ClickCloseButton ==
    /\ TotalCloseCalls < MaxCloseCalls
    /\ Has(closeButtonDom)
    /\ closeButton.inModal \/ phase # "open"
    /\ LET afterMouseDown == MousedownCalls(closeButton.inModal)
       IN  IF Val(closeButtonDom) = "custom"
           THEN /\ customOnCloseCalls' = customOnCloseCalls + 1
                /\ onCloseCalls' = afterMouseDown
           ELSE /\ customOnCloseCalls' = customOnCloseCalls
                /\ onCloseCalls' = [afterMouseDown EXCEPT ![onClose] = @ + 1]
    /\ UNCHANGED <<modalProps, phase, closeOnEsc, closeOnOverlayClick, onClose, activeElement,
                   previouslyFocusedElement, trapListener, bodyStyle, scrollCleanup,
                   keydownListeners, mousedownListeners, focusBeforeOpen, styleBeforeOpen,
                   closeButtonDom, closeButtonWarned>>
    /\ UNCHANGED notModal

----------------------------------------------------------------------------
(***************************************************************************)
(* Button                                                                  *)
(***************************************************************************)

\* How many onClick invocations are counted before the model stops clicking.
MaxClicks == 7

ButtonPropsSet ==
    [disabled : {None, Some(TRUE), Some(FALSE)}, loading : BOOLEAN, hasOnClick : BOOLEAN]

\* A Button whose disabled attribute ignores loading.
isDisabledIgnoringLoading(props) == Has(props.disabled) /\ Val(props.disabled)

\* const isDisabled = disabled || loading  (the rendered disabled attribute)
isDisabled(props) == (Has(props.disabled) /\ Val(props.disabled)) \/ props.loading

\* handleClick: how many times it invokes onClick
handleClick(props) ==
    IF props.loading THEN 0
    ELSE IF props.hasOnClick THEN 1 ELSE 0

\* What a click event aimed at the <button> invokes: a disabled <button>
\* receives no click event.
ClickInvocations(props) == IF isDisabled(props) THEN 0 ELSE handleClick(props)

ButtonInit ==
    /\ buttonProps \in ButtonPropsSet
    /\ buttonFocused = FALSE
    /\ onClickCalls = 0

ButtonIdle ==
    /\ buttonProps = [disabled |-> None, loading |-> FALSE, hasOnClick |-> FALSE]
    /\ buttonFocused = FALSE
    /\ onClickCalls = 0

\* The parent re-renders the Button with other props; a button that becomes
\* disabled loses focus.
RerenderButton(props) ==
    /\ props # buttonProps
    /\ buttonProps' = props
    /\ buttonFocused' = (buttonFocused /\ ~isDisabled(props))
    /\ UNCHANGED onClickCalls
    /\ UNCHANGED notButton

\* The user clicks the button with the mouse.
ClickButton ==
    /\ onClickCalls < MaxClicks
    /\ onClickCalls' = onClickCalls + ClickInvocations(buttonProps)
    /\ buttonFocused' = (buttonFocused \/ ~isDisabled(buttonProps))
    /\ UNCHANGED buttonProps
    /\ UNCHANGED notButton

\* The user moves keyboard focus to or away from the button.
FocusButton ==
    /\ ~isDisabled(buttonProps)
    /\ buttonFocused' = ~buttonFocused
    /\ UNCHANGED <<buttonProps, onClickCalls>>
    /\ UNCHANGED notButton

\* The user presses a key while the button has focus: Enter and Space
\* activate it, which dispatches a click.
KeyOnButton(key) ==
    /\ buttonFocused
    /\ onClickCalls < MaxClicks
    /\ onClickCalls' = onClickCalls +
          (IF key \in {"Enter", " "} THEN ClickInvocations(buttonProps) ELSE 0)
    /\ UNCHANGED <<buttonProps, buttonFocused>>
    /\ UNCHANGED notButton

----------------------------------------------------------------------------
(***************************************************************************)
(* DataTable: usePagination, useRowSelection and the selection effects     *)
(*                                                                         *)
(* A row is its id.  The parent passes the rows of the current page as     *)
(* `data`; with controlled pagination it also passes (page, pageSize,      *)
(* total) and receives onPageChange / onPageSizeChange.  A handler, the    *)
(* re-render it causes and the effects of that render are one step.        *)
(***************************************************************************)

\* Largest page number, total and number of rows of `data` the parent passes.
MaxPage == 3
MaxTotal == 4
MaxRows == 3
\* useState(10): the uncontrolled page size
DefaultPageSize == 10
\* Page sizes the parent or the size selector may choose.
PageSizes == {2, 3, DefaultPageSize}

RowId(i) == 100 + i
DataOf(n) == [i \in 1 .. n |-> RowId(i)]
AllKeys == (0 .. MaxRows) \cup {RowId(i) : i \in 1 .. MaxRows + 1}

PaginationConfigs == [page : 1 .. MaxPage, pageSize : PageSizes \ {DefaultPageSize}, total : 0 .. MaxTotal]

\* A usePagination whose totalPages rounds down.
totalPagesFloor(total, pageSize) == total \div pageSize

\* Math.ceil(total / pageSize)
totalPages(total, pageSize) == (total + pageSize - 1) \div pageSize

\* What usePagination returns for the props and its local state.
Pagination(config, lPage, lPageSize) ==
    LET pg == IF Has(config) THEN Val(config).page ELSE lPage
        ps == IF Has(config) THEN Val(config).pageSize ELSE lPageSize
        tot == IF Has(config) THEN Val(config).total ELSE 0
        tp == totalPages(tot, ps)
    IN  [page |-> pg, pageSize |-> ps, total |-> tot, totalPages |-> tp,
         canNextPage |-> pg < tp, canPrevPage |-> pg > 1,
         startIndex |-> (pg - 1) * ps + 1,
         endIndex |-> IF pg * ps < tot THEN pg * ps ELSE tot]

\* A handlePageChange that passes the page on as it is.
clampedPageUnclamped(newPage, tp) == newPage

\* handlePageChange: Math.max(1, Math.min(newPage, totalPages))
clampedPage(newPage, tp) ==
    LET m == IF newPage < tp THEN newPage ELSE tp
    IN  IF m > 1 THEN m ELSE 1

PageChange(p) == [fn |-> "onPageChange", arg |-> p]
PageSizeChange(s) == [fn |-> "onPageSizeChange", arg |-> s]

\* A handlePageSizeChange that resets the page before reporting the size.
PageSizeChangeCallsPageFirst(newSize) == <<PageChange(1), PageSizeChange(newSize)>>

\* handlePageSizeChange with a config: the calls it makes, in order
PageSizeChangeCalls(newSize) == <<PageSizeChange(newSize), PageChange(1)>>

\* getRowKey ? getRowKey(row, index) : index; the custom function is row => row.id
RowKey(keyFn, row, index) == IF Has(keyFn) THEN row ELSE index

\* A toggleRow that treats a missing isSelected as "select".
ToggledSelectionNoFlip(selected, key, isSelected) ==
    IF Has(isSelected) /\ ~Val(isSelected) THEN selected \ {key} ELSE selected \cup {key}

\* toggleRow: newSelection
ToggledSelection(selected, key, isSelected) ==
    IF ~Has(isSelected)
    THEN (IF key \in selected THEN selected \ {key} ELSE selected \cup {key})
    ELSE IF Val(isSelected) THEN selected \cup {key}
    ELSE selected \ {key}

\* A toggleAllRows that ignores getRowKey.
AllSelectionByIndex(keyFn, rowList, isSelected) ==
    IF isSelected THEN {i - 1 : i \in 1 .. Len(rowList)} ELSE {}

\* toggleAllRows: newSelection
AllSelection(keyFn, rowList, isSelected) ==
    IF isSelected THEN {RowKey(keyFn, rowList[i], i - 1) : i \in 1 .. Len(rowList)} ELSE {}

\* useProcessedData: the rows to display with their keys.  The hook's code is
\* not part of the sources read here; the rows are taken to be the given
\* rows in the given order, each keyed by getRowKey or by its position.
ProcessedRows(rowData, keyFn) ==
    [i \in 1 .. Len(rowData) |-> [row |-> rowData[i], key |-> RowKey(keyFn, rowData[i], i - 1)]]

\* useProcessedData: isEmpty
isDataEmpty(rowData) == Len(rowData) = 0

\* A selection effect that reports the keys' positions in `data` whatever getRowKey is.
SelectedRowsByIndex(rowData, keyFn, selected) ==
    LET kept == SelectSeq([i \in 1 .. Len(rowData) |-> [row |-> rowData[i], idx |-> i - 1]],
                          LAMBDA r : r.idx \in selected)
    IN  [j \in 1 .. Len(kept) |-> kept[j].row]

\* selection effect: data.filter((row, index) => selectedRowKeys.has(key))
SelectedRows(rowData, keyFn, selected) ==
    LET kept == SelectSeq([i \in 1 .. Len(rowData) |-> [row |-> rowData[i], idx |-> i - 1]],
                          LAMBDA r : RowKey(keyFn, r.row, r.idx) \in selected)
    IN  [j \in 1 .. Len(kept) |-> kept[j].row]

\* A page-change effect that never clears.
SelectionAfterRenderKept(enabled, external, selected) == selected

\* page-change effect: clearSelection() when enableSelection && externalPagination
SelectionAfterRender(enabled, external, selected) ==
    IF enabled /\ external THEN {} ELSE selected

\* selection effect: the onSelectionChange call it makes for a new key set
SelectionCall(enabled, handler, rowData, keyFn, selected, previous) ==
    IF ~enabled \/ ~handler THEN previous
    ELSE Some(SelectedRows(rowData, keyFn, selected))

\* isRowSelected
isRowSelected(row, index) ==
    IF ~enableSelection THEN FALSE
    ELSE RowKey(getRowKey, row, index) \in selectedRowKeys

rows == ProcessedRows(data, getRowKey)

\* allRowsSelected
allRowsSelected ==
    IF ~enableSelection \/ Len(rows) = 0 THEN FALSE
    ELSE \A i \in 1 .. Len(rows) : isRowSelected(rows[i].row, rows[i].key)

pagination == Pagination(externalPagination, localPage, localPageSize)

\* The pagination footer is rendered with controlled pagination and rows to show.
footerRendered == Has(externalPagination) /\ ~isDataEmpty(data)
\* "Showing <startIndex> to <endIndex> of <total> entries"
footerText == <<pagination.startIndex, pagination.endIndex, pagination.total>>
\* disabled={!pagination.canPrevPage}, disabled={!pagination.canNextPage}
prevButtonEnabled == pagination.canPrevPage
nextButtonEnabled == pagination.canNextPage

\* observer record: handler name, whether the page number changed, whether
\* rows were selected when the handler started
Event(handler, pageChanged) ==
    [handler |-> handler, pageChanged |-> pageChanged, hadSelection |-> selectedRowKeys # {}]

TableInit ==
    /\ externalPagination \in {None} \cup {Some(c) : c \in PaginationConfigs}
    /\ localPage = 1
    /\ localPageSize = DefaultPageSize
    /\ pageCalls = <<>>
    /\ data \in {DataOf(n) : n \in 0 .. MaxRows}
    /\ enableSelection \in BOOLEAN
    /\ getRowKey \in {None, Some("id")}
    /\ onSelectionChange \in BOOLEAN
    /\ selectedRowKeys = {}
    \* the selection effect has run on mount
    /\ lastSelectionCall = SelectionCall(enableSelection, onSelectionChange, data, getRowKey, {}, None)
    /\ lastEvent = [handler |-> "mount", pageChanged |-> FALSE, hadSelection |-> FALSE]

TableIdle ==
    /\ externalPagination = None
    /\ localPage = 1
    /\ localPageSize = DefaultPageSize
    /\ pageCalls = <<>>
    /\ data = <<>>
    /\ enableSelection = FALSE
    /\ getRowKey = None
    /\ onSelectionChange = FALSE
    /\ selectedRowKeys = {}
    /\ lastSelectionCall = None
    /\ lastEvent = [handler |-> "mount", pageChanged |-> FALSE, hadSelection |-> FALSE]

tableProps == <<enableSelection, getRowKey, onSelectionChange>>

\* setSelectedRowKeys(newSelection) and the render that follows: the
\* selection effect reports the new set.
SetSelectedRowKeys(newSelection) ==
    /\ selectedRowKeys' = newSelection
    /\ lastSelectionCall' = SelectionCall(enableSelection, onSelectionChange, data, getRowKey,
                                          newSelection, lastSelectionCall)

\* setPage(newPage)
SetPage(newPage) ==
    /\ LET p == clampedPage(newPage, pagination.totalPages)
       IN  IF Has(externalPagination)
           THEN pageCalls' = <<PageChange(p)>> /\ UNCHANGED localPage
           ELSE pageCalls' = <<>> /\ localPage' = p
    /\ UNCHANGED <<externalPagination, localPageSize, data, tableProps, selectedRowKeys,
                   lastSelectionCall>>
    /\ lastEvent' = Event("setPage", localPage' # localPage)
    /\ UNCHANGED notTable

\* nextPage(): the Next button's onClick
NextPage ==
    /\ IF pagination.page < pagination.totalPages
       THEN LET p == clampedPage(pagination.page + 1, pagination.totalPages)
            IN  IF Has(externalPagination)
                THEN pageCalls' = <<PageChange(p)>> /\ UNCHANGED localPage
                ELSE pageCalls' = <<>> /\ localPage' = p
       ELSE pageCalls' = <<>> /\ UNCHANGED localPage
    /\ UNCHANGED <<externalPagination, localPageSize, data, tableProps, selectedRowKeys,
                   lastSelectionCall>>
    /\ lastEvent' = Event("nextPage", localPage' # localPage)
    /\ UNCHANGED notTable

\* prevPage(): the Previous button's onClick
PrevPage ==
    /\ IF pagination.page > 1
       THEN LET p == clampedPage(pagination.page - 1, pagination.totalPages)
            IN  IF Has(externalPagination)
                THEN pageCalls' = <<PageChange(p)>> /\ UNCHANGED localPage
                ELSE pageCalls' = <<>> /\ localPage' = p
       ELSE pageCalls' = <<>> /\ UNCHANGED localPage
    /\ UNCHANGED <<externalPagination, localPageSize, data, tableProps, selectedRowKeys,
                   lastSelectionCall>>
    /\ lastEvent' = Event("prevPage", localPage' # localPage)
    /\ UNCHANGED notTable

\* setPageSize(newSize): the size selector's onChange
SetPageSize(newSize) ==
    /\ IF Has(externalPagination)
       THEN /\ pageCalls' = PageSizeChangeCalls(newSize)
            /\ UNCHANGED <<localPage, localPageSize>>
       ELSE /\ pageCalls' = <<>>
            /\ localPageSize' = newSize
            /\ localPage' = 1
    /\ UNCHANGED <<externalPagination, data, tableProps, selectedRowKeys, lastSelectionCall>>
    /\ lastEvent' = Event("setPageSize", localPage' # localPage)
    /\ UNCHANGED notTable

\* The parent renders the table again with new rows and, with controlled
\* pagination, a new pagination object (its answer to onPageChange /
\* onPageSizeChange, new totals, or just a re-render).  The page-change
\* effect runs on the new object, and the selection effect reports the
\* selection over the new rows.
RerenderTable(config, newData) ==
    /\ Has(config) = Has(externalPagination)
    /\ <<config, newData>> # <<externalPagination, data>>
    /\ externalPagination' = config
    /\ data' = newData
    /\ pageCalls' = <<>>
    /\ LET kept == SelectionAfterRender(enableSelection, Has(config), selectedRowKeys)
       IN  /\ selectedRowKeys' = kept
           /\ lastSelectionCall' = SelectionCall(enableSelection, onSelectionChange, newData,
                                                 getRowKey, kept, lastSelectionCall)
    /\ lastEvent' = Event("rerender", Has(config) /\ Val(config).page # Val(externalPagination).page)
    /\ UNCHANGED <<localPage, localPageSize, tableProps>>
    /\ UNCHANGED notTable

\* toggleRow(data[index], index, isSelected): a row checkbox's onChange
ToggleRow(index, isSelected) ==
    /\ index < Len(data)
    /\ IF ~enableSelection
       THEN UNCHANGED <<selectedRowKeys, lastSelectionCall>>
       ELSE SetSelectedRowKeys(ToggledSelection(selectedRowKeys,
                                                RowKey(getRowKey, data[index + 1], index),
                                                isSelected))
    /\ pageCalls' = <<>>
    /\ UNCHANGED <<externalPagination, localPage, localPageSize, data, tableProps>>
    /\ lastEvent' = Event("toggleRow", FALSE)
    /\ UNCHANGED notTable

\* toggleAllRows(rows, isSelected) on the displayed rows
ToggleAllRows(isSelected) ==
    /\ IF ~enableSelection
       THEN UNCHANGED <<selectedRowKeys, lastSelectionCall>>
       ELSE SetSelectedRowKeys(AllSelection(getRowKey, data, isSelected))
    /\ pageCalls' = <<>>
    /\ UNCHANGED <<externalPagination, localPage, localPageSize, data, tableProps>>
    /\ lastEvent' = Event("toggleAllRows", FALSE)
    /\ UNCHANGED notTable

\* handleSelectAll: the header checkbox's onChange (the checkbox exists when
\* selection is enabled and the table has rows)
HandleSelectAll ==
    /\ enableSelection
    /\ ~isDataEmpty(data)
    /\ SetSelectedRowKeys(AllSelection(getRowKey, [i \in 1 .. Len(rows) |-> rows[i].row],
                                       ~allRowsSelected))
    /\ pageCalls' = <<>>
    /\ UNCHANGED <<externalPagination, localPage, localPageSize, data, tableProps>>
    /\ lastEvent' = Event("handleSelectAll", FALSE)
    /\ UNCHANGED notTable

----------------------------------------------------------------------------
(***************************************************************************)
(* DayCell: one <td role="gridcell"> of the calendar and its handlers      *)
(***************************************************************************)

\* How many DOM events are delivered to the cell.
MaxCellEvents == 2

HandlerProps == {"onClick", "onMouseEnter", "onMouseLeave", "onFocus"}
CellKeys == {" ", "Enter", "Tab"}
CellPropsSet ==
    [date : Times, isDisabled : BOOLEAN, isFocusable : BOOLEAN, handlers : SUBSET HandlerProps]

CellCall(fn, date) == [fn |-> fn, date |-> date]

\* A handleClick that does not look at isDisabled.
handleCellClickIgnoringDisabled(props) ==
    IF "onClick" \in props.handlers THEN <<CellCall("onClick", props.date)>> ELSE <<>>

\* handleClick: the calls it makes
handleCellClick(props) ==
    IF ~props.isDisabled /\ "onClick" \in props.handlers
    THEN <<CellCall("onClick", props.date)>>
    ELSE <<>>

\* handleMouseEnter
handleMouseEnter(props) ==
    IF ~props.isDisabled /\ "onMouseEnter" \in props.handlers
    THEN <<CellCall("onMouseEnter", props.date)>>
    ELSE <<>>

\* handleMouseLeave
handleMouseLeave(props) ==
    IF ~props.isDisabled /\ "onMouseLeave" \in props.handlers
    THEN <<CellCall("onMouseLeave", props.date)>>
    ELSE <<>>

\* handleFocus
handleFocus(props) ==
    IF props.isFocusable /\ "onFocus" \in props.handlers
    THEN <<CellCall("onFocus", props.date)>>
    ELSE <<>>

\* onKeyDown: Space and Enter trigger the click
handleCellKeyDown(props, key) ==
    IF (key = " " \/ key = "Enter") /\ ~props.isDisabled THEN handleCellClick(props) ELSE <<>>

CellInit ==
    /\ cellProps \in CellPropsSet
    /\ cellEvents = <<>>
    /\ cellCalls = <<>>

CellIdle ==
    /\ cellProps = [date |-> 0, isDisabled |-> FALSE, isFocusable |-> FALSE, handlers |-> {}]
    /\ cellEvents = <<>>
    /\ cellCalls = <<>>

\* One DOM event reaches the cell and its React handler runs.
Deliver(event, calls) ==
    /\ Len(cellEvents) < MaxCellEvents
    /\ cellEvents' = Append(cellEvents, event)
    /\ cellCalls' = cellCalls \o calls
    /\ UNCHANGED cellProps
    /\ UNCHANGED notCell

\* The user clicks the cell.
ClickCell == Deliver("click", handleCellClick(cellProps))
\* The pointer enters the cell.
MouseEnterCell == Deliver("mouseenter", handleMouseEnter(cellProps))
\* The pointer leaves the cell.
MouseLeaveCell == Deliver("mouseleave", handleMouseLeave(cellProps))
\* The cell receives focus (by Tab when tabIndex is 0, by pointer or script otherwise).
FocusCell == Deliver("focus", handleFocus(cellProps))
\* A key is pressed while the cell has focus.
KeyDownCell(key) == Deliver(key, handleCellKeyDown(cellProps, key))

----------------------------------------------------------------------------
(***************************************************************************)
(* A second Modal on the same page                                         *)
(*                                                                         *)
(* It is rendered with lockScroll, closeOnEsc and closeOnOverlayClick left *)
(* at their defaults (true), trapFocus false and its own onClose.  Its     *)
(* hooks are the same code as the first Modal's and act on the same        *)
(* document: one body style, one list of listeners per event type.         *)
(***************************************************************************)

Modal2Handler == Handler("onCloseB", TRUE)

\* window.innerWidth - documentElement.clientWidth: no scrollbar is shown
\* while the body's overflow is hidden
ScrollbarWidthsNow == IF bodyStyle.overflow = "hidden" THEN {0} ELSE ScrollbarWidths

Modal2Init ==
    /\ phase2 = "closed"
    /\ scrollCleanup2 = None
    /\ pageStyle = bodyStyle

Modal2Idle ==
    /\ phase2 = "closed"
    /\ scrollCleanup2 = None
    /\ pageStyle = [overflow |-> "", paddingRight |-> ""]

\* What opening or closing the second Modal leaves alone in the first.
modal1Kept == <<phase, trapFocus, lockScroll, closeOnEsc, closeOnOverlayClick, onClose,
                nFocusable, activeElement, previouslyFocusedElement, trapListener,
                scrollCleanup, onCloseCalls, focusBeforeOpen, styleBeforeOpen, closeButton,
                closeButtonDom, closeButtonWarned, customOnCloseCalls>>

\* The parent renders the first Modal with isOpen = true while the second
\* may be open.
OpenFirstModal ==
    /\ OpenModal
    /\ \E scrollbarWidth \in ScrollbarWidthsNow :
          bodyStyle' = ScrollLockEffect(lockScroll, bodyStyle, scrollbarWidth).style

\* The parent renders the second Modal with isOpen = true: its effects run
\* (useFocusTrap returns at once without trapFocus).
OpenModal2 ==
    /\ phase2 = "closed"
    /\ phase2' = "open"
    /\ \E scrollbarWidth \in ScrollbarWidthsNow :
          LET sl == ScrollLockEffect(TRUE, bodyStyle, scrollbarWidth)
          IN  /\ bodyStyle' = sl.style
              /\ scrollCleanup2' = sl.cleanup
    /\ keydownListeners' = AddListener(keydownListeners, Modal2Handler)
    /\ mousedownListeners' = AddListener(mousedownListeners, Modal2Handler)
    /\ UNCHANGED <<modal1Kept, pageStyle>>
    /\ UNCHANGED notModals

\* The parent renders the second Modal with isOpen = false: its cleanups run.
CloseModal2 ==
    /\ phase2 = "open"
    /\ phase2' = "closed"
    /\ bodyStyle' = ScrollLockCleanup(scrollCleanup2, bodyStyle)
    /\ scrollCleanup2' = None
    /\ keydownListeners' = RemoveListener(keydownListeners, Modal2Handler)
    /\ mousedownListeners' = RemoveListener(mousedownListeners, Modal2Handler)
    /\ UNCHANGED <<modal1Kept, pageStyle>>
    /\ UNCHANGED notModals

----------------------------------------------------------------------------
(***************************************************************************)
(* Specifications                                                          *)
(***************************************************************************)

InitSort == SortInit /\ DateIdle /\ ModalIdle /\ ButtonIdle /\ TableIdle /\ CellIdle /\ Modal2Idle
NextSort == \E key \in ColumnIds : OnSort(key)
SpecSort == InitSort /\ [][NextSort]_vars

InitDate == SortIdle /\ DateIdle /\ ModalIdle /\ ButtonIdle /\ TableIdle /\ CellIdle /\ Modal2Idle
NextDate ==
    \/ CallIsDateDisabled
    \/ CallIsDateInRange
    \/ CallIsRangeStart
    \/ CallIsRangeEnd
    \/ CallGetDaysInMonth
SpecDate == InitDate /\ [][NextDate]_vars

InitModal == SortIdle /\ DateIdle /\ ModalInit /\ ButtonIdle /\ TableIdle /\ CellIdle /\ Modal2Idle
NextModal ==
    \/ OpenModal
    \/ CloseModal
    \/ UnmountModal
    \/ \E f \in OnCloseIds, esc \in BOOLEAN, overlay \in BOOLEAN : RerenderModal(f, esc, overlay)
    \/ \E key \in Keys : KeyDown(key)
    \/ \E targetInside \in BOOLEAN : MouseDown(targetInside)
    \/ ClickCloseButton
SpecModal == InitModal /\ [][NextModal]_vars

InitButton == SortIdle /\ DateIdle /\ ModalIdle /\ ButtonInit /\ TableIdle /\ CellIdle /\ Modal2Idle
NextButton ==
    \/ \E props \in ButtonPropsSet : RerenderButton(props)
    \/ ClickButton
    \/ FocusButton
    \/ \E key \in {"Enter", " ", "a"} : KeyOnButton(key)
SpecButton == InitButton /\ [][NextButton]_vars

InitTable == SortIdle /\ DateIdle /\ ModalIdle /\ ButtonIdle /\ TableInit /\ CellIdle /\ Modal2Idle
NextTable ==
    \/ \E newPage \in 0 .. MaxPage + 1 : SetPage(newPage)
    \/ NextPage
    \/ PrevPage
    \/ \E newSize \in PageSizes : SetPageSize(newSize)
    \/ \E config \in {None} \cup {Some(c) : c \in PaginationConfigs}, n \in 0 .. MaxRows :
          RerenderTable(config, DataOf(n))
    \/ \E index \in 0 .. MaxRows - 1, isSelected \in {None, Some(TRUE), Some(FALSE)} :
          ToggleRow(index, isSelected)
    \/ \E isSelected \in BOOLEAN : ToggleAllRows(isSelected)
    \/ HandleSelectAll
SpecTable == InitTable /\ [][NextTable]_vars

InitCell == SortIdle /\ DateIdle /\ ModalIdle /\ ButtonIdle /\ TableIdle /\ CellInit /\ Modal2Idle
NextCell ==
    \/ ClickCell
    \/ MouseEnterCell
    \/ MouseLeaveCell
    \/ FocusCell
    \/ \E key \in CellKeys : KeyDownCell(key)
SpecCell == InitCell /\ [][NextCell]_vars

InitTwoModals ==
    /\ SortIdle /\ DateIdle /\ ButtonIdle /\ TableIdle /\ CellIdle
    /\ ModalInit /\ lockScroll
    /\ Modal2Init
NextTwoModals ==
    \/ OpenFirstModal
    \/ CloseModal
    \/ OpenModal2
    \/ CloseModal2
SpecTwoModals == InitTwoModals /\ [][NextTwoModals]_vars

----------------------------------------------------------------------------
(***************************************************************************)
(* Claims                                                                  *)
(***************************************************************************)

\* What the sort-toggling rule says onSort(k) produces from state s.
ToggledSort(s, k) ==
    IF s.key # k THEN [key |-> k, direction |-> "asc"]
    ELSE IF s.direction = "asc" THEN [key |-> k, direction |-> "desc"]
    ELSE [key |-> k, direction |-> "asc"]

\* C1: onSort(k) on a column other than the sorted one (or on the unsorted
\* table) gives (k, asc); on the sorted column it gives desc after asc and asc
\* otherwise; onSortChange, when given, receives exactly that new state, once.
C1_SortToggle ==
    [][\A k \in ColumnIds : OnSort(k) =>
          /\ sort' = ToggledSort(sort, k)
          /\ onSortChange => sortChangeCalls' = Append(sortChangeCalls, sort')
          /\ ~onSortChange => sortChangeCalls' = sortChangeCalls]_vars

\* C1 witness: the same column was clicked twice from the unsorted table and
\* then another column: asc, desc, then asc on the new column were reported.
C1_Witness ==
    /\ Len(sortChangeCalls) = 3
    /\ sortChangeCalls[1] = [key |-> "name", direction |-> "asc"]
    /\ sortChangeCalls[2] = [key |-> "name", direction |-> "desc"]
    /\ sortChangeCalls[3] = [key |-> "age", direction |-> "asc"]
    /\ sort = [key |-> "age", direction |-> "asc"]

Min(a, b) == IF a <= b THEN a ELSE b
Max(a, b) == IF a >= b THEN a ELSE b

\* C3: isDateInRange is false when from or to is null; otherwise true exactly
\* when min(from, to) <= date <= max(from, to), so swapping from and to does
\* not change the result.
C3_InRangeInclusiveSymmetric ==
    call.fn = "isDateInRange" =>
        /\ (~Has(call.range.from) \/ ~Has(call.range.to)) => ret = FALSE
        /\ (Has(call.range.from) /\ Has(call.range.to)) =>
              /\ ret <=> /\ Min(Val(call.range.from), Val(call.range.to)) <= call.date
                         /\ call.date <= Max(Val(call.range.from), Val(call.range.to))
              /\ ret = isDateInRange(call.date, [from |-> call.range.to, to |-> call.range.from])

\* C3 witness: a reversed range (from after to) that contains the date.
C3_Witness ==
    /\ call.fn = "isDateInRange"
    /\ Has(call.range.from) /\ Has(call.range.to)
    /\ Val(call.range.from) > Val(call.range.to)
    /\ call.date = Val(call.range.from)
    /\ ret = TRUE

InsideElements == {Inside(i) : i \in 1 .. nFocusable}

\* C4: while the modal is open with trapFocus and has a focusable element,
\* focus is on one of the dialog's focusable elements: opening focuses the
\* first, Tab on the last goes to the first, Shift+Tab on the first goes to
\* the last, and no Tab or Shift+Tab press takes focus out of the dialog.
C4_FocusStaysInModal ==
    /\ [](phase = "open" /\ trapFocus /\ nFocusable >= 1 => activeElement \in InsideElements)
    /\ [][(trapFocus /\ nFocusable >= 1 /\ OpenModal) => activeElement' = Inside(1)]_vars
    /\ [][(phase = "open" /\ trapFocus /\ nFocusable >= 1 /\ KeyDown("Tab")
             /\ activeElement = Inside(nFocusable)) => activeElement' = Inside(1)]_vars
    /\ [][(phase = "open" /\ trapFocus /\ nFocusable >= 1 /\ KeyDown("Shift+Tab")
             /\ activeElement = Inside(1)) => activeElement' = Inside(nFocusable)]_vars

\* C4 witness: an open trapping modal with several focusable elements whose
\* last element has focus (reached by Tab presses or by Shift+Tab on the first).
C4_Witness ==
    /\ phase = "open" /\ trapFocus
    /\ nFocusable >= 2
    /\ activeElement = Inside(nFocusable)
    /\ focusBeforeOpen = Outside(1)

\* C5: when an open modal with trapFocus closes or unmounts, focus is back on
\* the element that had it just before the modal opened (when an element had
\* it), whatever the modal contains.
C5_FocusRestoredOnClose ==
    [][(phase = "open" /\ trapFocus /\ focusBeforeOpen # Body /\ phase' # "open")
          => activeElement' = focusBeforeOpen]_vars

\* C6: an open modal with lockScroll keeps body overflow 'hidden'; closing it
\* puts overflow and paddingRight back to what they were just before it
\* opened; without lockScroll the body style never changes.
C6_ScrollLock ==
    /\ [](phase = "open" /\ lockScroll => bodyStyle.overflow = "hidden")
    /\ [][(phase = "open" /\ lockScroll /\ phase' # "open") => bodyStyle' = styleBeforeOpen]_vars
    /\ [][~lockScroll => bodyStyle' = bodyStyle]_vars

\* C6 witness: a modal that locked scrolling on a page with its own body
\* style has been opened and closed again, and the page's style is back.
C6_Witness ==
    /\ phase = "closed" /\ lockScroll
    /\ Has(previouslyFocusedElement)
    /\ bodyStyle = [overflow |-> "auto", paddingRight |-> "4px"]

\* C7: while the modal is open, a mousedown outside the dialog container
\* invokes the current onClose once if closeOnOverlayClick and not at all
\* otherwise; a mousedown inside the container invokes nothing.
C7_ClickOutside ==
    [][\A targetInside \in BOOLEAN :
          (phase = "open" /\ MouseDown(targetInside)) =>
              onCloseCalls' = IF ~targetInside /\ closeOnOverlayClick
                              THEN [onCloseCalls EXCEPT ![onClose] = @ + 1]
                              ELSE onCloseCalls]_vars

\* C7 witness: an open modal that closes on overlay clicks only, whose
\* onClose has been invoked.
C7_Witness ==
    /\ phase = "open"
    /\ closeOnOverlayClick /\ ~closeOnEsc
    /\ onClose = "onCloseB" /\ onCloseCalls["onCloseB"] = 1
    /\ ~closeButton.inModal

\* C8: while the modal is open, an Escape keydown invokes the current onClose
\* once if closeOnEsc and not at all otherwise; any other key invokes nothing.
C8_EscapeKey ==
    [][\A key \in Keys :
          (phase = "open" /\ KeyDown(key)) =>
              onCloseCalls' = IF key = "Escape" /\ closeOnEsc
                              THEN [onCloseCalls EXCEPT ![onClose] = @ + 1]
                              ELSE onCloseCalls]_vars

\* C8 witness: an open modal that closes on Escape only, whose onClose has
\* been invoked twice.
C8_Witness ==
    /\ phase = "open"
    /\ closeOnEsc /\ ~closeOnOverlayClick
    /\ onClose = "onCloseB" /\ onCloseCalls["onCloseB"] = 2
    /\ ~closeButton.inModal

\* C9: a click on Modal.CloseButton invokes its own onClose prop if it has
\* one and otherwise the enclosing Modal's onClose, one of the two, once; a
\* button with neither warns, renders nothing and invokes nothing, and only
\* such a button warns.
C9_CloseButton ==
    /\ [][ClickCloseButton =>
             IF closeButton.custom
             THEN /\ customOnCloseCalls' = customOnCloseCalls + 1
                  /\ onCloseCalls' = onCloseCalls
             ELSE /\ customOnCloseCalls' = customOnCloseCalls
                  /\ onCloseCalls' = [onCloseCalls EXCEPT ![onClose] = @ + 1]]_vars
    /\ []((~closeButton.custom /\ ~closeButton.inModal) =>
             /\ closeButtonWarned
             /\ closeButtonDom = None
             /\ customOnCloseCalls = 0)
    /\ [](closeButtonWarned => (~closeButton.custom /\ ~closeButton.inModal))

\* C9 witness: a close button inside an open Modal with its own onClose was
\* clicked: its own handler ran, the Modal's did not.
C9_Witness ==
    /\ phase = "open"
    /\ closeButton = [custom |-> TRUE, inModal |-> TRUE]
    /\ customOnCloseCalls = 1
    /\ onCloseCalls = [f \in OnCloseIds |-> 0]

\* C10: a click invokes onClick once when the button is neither disabled nor
\* loading and never otherwise; the rendered button is disabled exactly when
\* disabled || loading.
C10_ButtonClick ==
    /\ [][ClickButton =>
             onClickCalls' = onClickCalls +
                (IF buttonProps.disabled = Some(TRUE) \/ buttonProps.loading THEN 0
                 ELSE IF buttonProps.hasOnClick THEN 1 ELSE 0)]_vars
    /\ [](isDisabled(buttonProps) <=> (buttonProps.disabled = Some(TRUE) \/ buttonProps.loading))

\* C10 witness: a button whose onClick ran while it was enabled is now loading.
C10_Witness ==
    /\ onClickCalls = 2
    /\ buttonProps.loading /\ buttonProps.hasOnClick
    /\ buttonProps.disabled = Some(FALSE)

\* Whether the strategy of an isDateDisabled call matches its date, with
\* before / after today meaning an earlier / later calendar day.
StrategyMatchesDay(c) ==
    \/ c.strategy.kind = "past" /\ DayOf(c.date) < DayOf(c.now)
    \/ c.strategy.kind = "future" /\ DayOf(c.date) > DayOf(c.now)
    \/ c.strategy.kind = "function" /\ c.strategy.fn[c.date]

\* Whether the strategy of an isDateDisabled call matches its date as the code
\* decides it.
StrategyMatches(c) ==
    \/ c.strategy.kind = "past" /\ c.date < c.now
    \/ c.strategy.kind = "future" /\ c.date > c.now
    \/ c.strategy.kind = "function" /\ c.strategy.fn[c.date]

\* C18: the disabledDates predicate and the strategy are combined by AND: with
\* both given (and no minDate / maxDate), a date is disabled only when the
\* predicate and the strategy both match it.
C18_PredicateAndStrategy ==
    (/\ call.fn = "isDateDisabled"
     /\ Has(call.customPredicate)
     /\ call.strategy.kind \in {"past", "future", "function"}
     /\ call.minDate = None /\ call.maxDate = None)
    => (ret => (Val(call.customPredicate)[call.date] /\ StrategyMatches(call)))

\* C19: 'past' disables exactly the dates of an earlier calendar day than
\* today and 'future' exactly those of a later one; a date on today's calendar
\* day is disabled by neither, whatever the times of day.
C19_TodayNeverDisabled ==
    (/\ call.fn = "isDateDisabled"
     /\ call.strategy.kind \in {"past", "future"}
     /\ call.customPredicate = None
     /\ call.minDate = None /\ call.maxDate = None)
    => (ret <=> StrategyMatchesDay(call))

\* C20: for a range with both dates set, isRangeStart is true exactly on the
\* calendar day of the earlier of from / to and isRangeEnd exactly on the
\* calendar day of the later one, also when from is after to.
C20_RangeEndpointsNormalized ==
    (/\ call.fn \in {"isRangeStart", "isRangeEnd"}
     /\ Has(call.range.from) /\ Has(call.range.to))
    => LET lo == Min(Val(call.range.from), Val(call.range.to))
           hi == Max(Val(call.range.from), Val(call.range.to))
       IN  ret <=> isSameDay(call.date, IF call.fn = "isRangeStart" THEN lo ELSE hi)

----------------------------------------------------------------------------
(* DataTable claims, checked under SpecTable *)

\* the props usePagination computes from
curPage == IF Has(externalPagination) THEN Val(externalPagination).page ELSE localPage
curPageSize == IF Has(externalPagination) THEN Val(externalPagination).pageSize ELSE localPageSize
curTotal == IF Has(externalPagination) THEN Val(externalPagination).total ELSE 0
\* ceil(total / pageSize): the least n with n * pageSize >= total
Ceil(total, pageSize) ==
    CHOOSE n \in 0 .. total : n * pageSize >= total /\ (n = 0 \/ (n - 1) * pageSize < total)

\* C11: in every pagination state usePagination reports totalPages =
\* ceil(total / pageSize), startIndex = (page - 1) * pageSize + 1 and
\* endIndex = min(page * pageSize, total), and the footer, when rendered,
\* shows these startIndex, endIndex and total.
C11_PaginationArithmetic ==
    /\ pagination.totalPages = Ceil(curTotal, curPageSize)
    /\ pagination.startIndex = (curPage - 1) * curPageSize + 1
    /\ pagination.endIndex = Min(curPage * curPageSize, curTotal)
    /\ footerRendered =>
         footerText = <<(curPage - 1) * curPageSize + 1, Min(curPage * curPageSize, curTotal),
                        curTotal>>

\* a last, partly filled page: its endIndex is the total and totalPages rounds up
C11_Witness ==
    /\ footerRendered
    /\ curPage > 1
    /\ curPage * curPageSize > curTotal
    /\ footerText = <<(curPage - 1) * curPageSize + 1, curTotal, curTotal>>
    /\ pagination.totalPages = curPage
    /\ pagination.totalPages * curPageSize # curTotal

\* C12 as stated: with controlled pagination Previous is enabled exactly
\* when page > 1 and calls onPageChange(page - 1); Next is enabled exactly
\* when page < totalPages and calls onPageChange(page + 1); prevPage at page
\* 1 and nextPage at the last page call nothing.
C12_PrevNextAsStated ==
    /\ [](Has(externalPagination) =>
            /\ prevButtonEnabled <=> curPage > 1
            /\ nextButtonEnabled <=> curPage < Ceil(curTotal, curPageSize))
    /\ [][(Has(externalPagination) /\ PrevPage) =>
            pageCalls' = IF curPage > 1 THEN <<PageChange(curPage - 1)>> ELSE <<>>]_vars
    /\ [][(Has(externalPagination) /\ NextPage) =>
            pageCalls' = IF curPage < Ceil(curTotal, curPageSize)
                         THEN <<PageChange(curPage + 1)>> ELSE <<>>]_vars

\* C12: with controlled pagination Previous is enabled exactly when page > 1
\* and calls onPageChange(max(1, min(page - 1, totalPages))), which is
\* page - 1 whenever page <= totalPages + 1; Next is enabled exactly when
\* page < totalPages and calls onPageChange(page + 1); prevPage at page 1
\* and nextPage at or beyond the last page call nothing.
C12_PrevNext ==
    /\ [](Has(externalPagination) =>
            /\ prevButtonEnabled <=> curPage > 1
            /\ nextButtonEnabled <=> curPage < Ceil(curTotal, curPageSize))
    /\ [][(Has(externalPagination) /\ PrevPage) =>
            /\ pageCalls' = IF curPage > 1
                            THEN <<PageChange(Max(1, Min(curPage - 1, Ceil(curTotal, curPageSize))))>>
                            ELSE <<>>
            /\ (curPage > 1 /\ curPage <= Ceil(curTotal, curPageSize) + 1) =>
                 pageCalls' = <<PageChange(curPage - 1)>>]_vars
    /\ [][(Has(externalPagination) /\ NextPage) =>
            pageCalls' = IF curPage < Ceil(curTotal, curPageSize)
                         THEN <<PageChange(curPage + 1)>> ELSE <<>>]_vars

\* Previous was clicked on a page more than one past the last page
C12_Witness ==
    /\ Has(externalPagination)
    /\ lastEvent.handler = "prevPage"
    /\ curPage > Ceil(curTotal, curPageSize) + 1
    /\ Ceil(curTotal, curPageSize) >= 1
    /\ pageCalls = <<PageChange(Ceil(curTotal, curPageSize))>>

\* C13: setPageSize(s) resets the page to 1: with controlled pagination it
\* calls onPageSizeChange(s) and then onPageChange(1), in that order; with
\* uncontrolled pagination it sets pageSize to s and page to 1.
C13_PageSizeResetsPage ==
    [][\A s \in PageSizes : SetPageSize(s) =>
         IF Has(externalPagination)
         THEN /\ Len(pageCalls') = 2
              /\ pageCalls'[1] = [fn |-> "onPageSizeChange", arg |-> s]
              /\ pageCalls'[2] = [fn |-> "onPageChange", arg |-> 1]
         ELSE /\ pagination'.pageSize = s
              /\ pagination'.page = 1
              /\ pageCalls' = <<>>]_vars

\* the page size was changed on a later page of a controlled table
C13_Witness ==
    /\ Has(externalPagination)
    /\ lastEvent.handler = "setPageSize"
    /\ curPage > 1
    /\ Len(pageCalls) = 2
    /\ pageCalls[1].fn = "onPageSizeChange"
    /\ pageCalls[1].arg # curPageSize

\* the key of the row at position index of data
KeyAt(index) == IF Has(getRowKey) THEN data[index + 1] ELSE index
\* the keys of the displayed rows
DisplayedKeys == {KeyAt(i) : i \in 0 .. Len(data) - 1}

\* C14: with selection enabled toggleRow(row, index, checked) changes the
\* selected-key set only at that row's key: true adds it, false removes it,
\* undefined flips it, and every other key's membership is unchanged.  With
\* selection disabled toggleRow and toggleAllRows change nothing and
\* isRowSelected is false for every row.
C14_ToggleRowFrame ==
    /\ [][\A index \in 0 .. MaxRows - 1, checked \in {None, Some(TRUE), Some(FALSE)} :
            (enableSelection /\ ToggleRow(index, checked)) =>
              /\ KeyAt(index) \in selectedRowKeys' <=>
                   IF checked = None THEN KeyAt(index) \notin selectedRowKeys
                   ELSE checked = Some(TRUE)
              /\ \A k \in AllKeys \ {KeyAt(index)} :
                   k \in selectedRowKeys' <=> k \in selectedRowKeys
              /\ selectedRowKeys' \subseteq AllKeys]_vars
    /\ [][\A index \in 0 .. MaxRows - 1, checked \in {None, Some(TRUE), Some(FALSE)} :
            (~enableSelection /\ ToggleRow(index, checked)) =>
              selectedRowKeys' = selectedRowKeys]_vars
    /\ [][\A checked \in BOOLEAN :
            (~enableSelection /\ ToggleAllRows(checked)) =>
              selectedRowKeys' = selectedRowKeys]_vars
    /\ [](~enableSelection =>
            \A i \in 0 .. Len(data) - 1 : ~isRowSelected(data[i + 1], i))

\* a checkbox was toggled while another row stayed selected
C14_Witness ==
    /\ enableSelection
    /\ Has(getRowKey)
    /\ lastEvent.handler = "toggleRow"
    /\ lastEvent.hadSelection
    /\ Len(data) = MaxRows
    /\ Cardinality(selectedRowKeys) = 2

C16_SelectionReported ==
    (enableSelection /\ onSelectionChange) =>
      /\ Has(lastSelectionCall)
      /\ LET reported == Val(lastSelectionCall)
             chosen == {i \in 0 .. Len(data) - 1 : KeyAt(i) \in selectedRowKeys}
         IN  /\ Len(reported) = Cardinality(chosen)
             /\ \E f \in [1 .. Len(reported) -> chosen] :
                  /\ \A a, b \in 1 .. Len(reported) : a < b => f[a] < f[b]
                  /\ \A a \in 1 .. Len(reported) : reported[a] = data[f[a] + 1]

\* two rows that are not neighbours were selected one by one and reported
C16_Witness ==
    /\ enableSelection
    /\ onSelectionChange
    /\ lastEvent.handler = "toggleRow"
    /\ Len(data) = 3
    /\ lastSelectionCall = Some(<<data[1], data[3]>>)

\* C17: with enableSelection and controlled pagination, after the page
\* number changes the selected-key set is empty.
C17_PageChangeClearsSelection ==
    [][(enableSelection /\ Has(externalPagination) /\ Has(externalPagination')
        /\ Val(externalPagination').page # Val(externalPagination).page)
       => selectedRowKeys' = {}]_vars

\* the page changed while rows were selected
C17_Witness ==
    /\ enableSelection
    /\ Has(externalPagination)
    /\ lastEvent.handler = "rerender"
    /\ lastEvent.pageChanged
    /\ lastEvent.hadSelection
    /\ selectedRowKeys = {}

----------------------------------------------------------------------------
(* Calendar grid, checked under SpecDate *)

\* C21: getDaysInMonth returns weeks of exactly 7 days each, for every month
\* (any first weekday, 28 to 31 days) and for showOutsideDays true and false.
C21_WeeksOfSevenDays ==
    call.fn = "getDaysInMonth" => \A w \in 1 .. Len(ret) : Len(ret[w]) = 7

----------------------------------------------------------------------------
(* DayCell claims, checked under SpecCell *)

\* how many calls of the handler prop fn the cell has made
CallCount(fn) == Cardinality({i \in 1 .. Len(cellCalls) : cellCalls[i].fn = fn})
\* how many clicks and Space / Enter keydowns the cell has received
ActivationCount ==
    Cardinality({i \in 1 .. Len(cellEvents) : cellEvents[i] \in {"click", " ", "Enter"}})

\* C22: a disabled DayCell never invokes onClick, onMouseEnter or
\* onMouseLeave, whatever events reach it; a DayCell that is not disabled
\* and has an onClick invokes onClick(date) exactly once for each click and
\* each Space or Enter keydown; onFocus(date) is invoked only when
\* isFocusable is true; every call carries the cell's date.
C22_DayCellHandlers ==
    /\ cellProps.isDisabled =>
         CallCount("onClick") = 0 /\ CallCount("onMouseEnter") = 0 /\ CallCount("onMouseLeave") = 0
    /\ (~cellProps.isDisabled /\ "onClick" \in cellProps.handlers) =>
         CallCount("onClick") = ActivationCount
    /\ ~cellProps.isFocusable => CallCount("onFocus") = 0
    /\ \A i \in 1 .. Len(cellCalls) : cellCalls[i].date = cellProps.date

\* a disabled cell with every handler given was clicked and got Enter
C22_Witness ==
    /\ cellProps.isDisabled
    /\ cellProps.handlers = HandlerProps
    /\ cellEvents = <<"click", "Enter">>
    /\ cellCalls = <<>>

----------------------------------------------------------------------------
(* Two Modals, checked under SpecTwoModals *)

\* C23: with two Modals that both lock scrolling, in every interleaving of
\* their open and close events body overflow is 'hidden' whenever at least
\* one of them is open, and once both are closed the body's overflow and
\* paddingRight are the values from before the first of them opened.
C23_TwoModalsScrollLock ==
    /\ (phase = "open" \/ phase2 = "open") => bodyStyle.overflow = "hidden"
    /\ (phase = "closed" /\ phase2 = "closed") => bodyStyle = pageStyle

----------------------------------------------------------------------------
(* Listener lifecycle of one Modal, checked under SpecModal *)

\* C24: after any sequence of isOpen toggles and onClose / closeOnEsc /
\* closeOnOverlayClick changes on one Modal, its Escape and mousedown
\* listeners are registered exactly while it is open, once each and built
\* from the current props; while it is closed or unmounted no keydown or
\* mousedown invokes an onClose; while it is open one such event invokes no
\* onClose but the current one, at most once, and an Escape with closeOnEsc
\* or a mousedown outside with closeOnOverlayClick invokes it exactly once.
C24_ListenerLifecycle ==
    /\ [](/\ keydownListeners = IF phase = "open" THEN <<Handler(onClose, closeOnEsc)>> ELSE <<>>
          /\ mousedownListeners = IF phase = "open"
                                  THEN <<Handler(onClose, closeOnOverlayClick)>> ELSE <<>>)
    /\ [][((\E key \in Keys : KeyDown(key)) \/ (\E inside \in BOOLEAN : MouseDown(inside))) =>
            /\ phase # "open" => onCloseCalls' = onCloseCalls
            /\ \A f \in OnCloseIds \ {onClose} : onCloseCalls'[f] = onCloseCalls[f]
            /\ onCloseCalls'[onClose] \in {onCloseCalls[onClose], onCloseCalls[onClose] + 1}]_vars
    /\ [][(phase = "open" /\ closeOnEsc /\ KeyDown("Escape")) =>
            onCloseCalls'[onClose] = onCloseCalls[onClose] + 1]_vars
    /\ [][(phase = "open" /\ closeOnOverlayClick /\ MouseDown(FALSE)) =>
            onCloseCalls'[onClose] = onCloseCalls[onClose] + 1]_vars

\* the open modal got a new onClose between two closing events: each
\* onClose has been invoked once and only the new handlers are registered
C24_Witness ==
    /\ phase = "open"
    /\ onClose = "onCloseB"
    /\ onCloseCalls = [f \in OnCloseIds |-> 1]
    /\ closeButton.custom
    /\ customOnCloseCalls = 0
    /\ keydownListeners = <<Handler("onCloseB", closeOnEsc)>>
    /\ mousedownListeners = <<Handler("onCloseB", closeOnOverlayClick)>>

====
